---- MODULE Spec2Model ----
(***************************************************************************)
(* Model of SelfSigned.Sign, the self-signed CertificateRequest issuer of  *)
(* pkg/controller/certificaterequests/selfsigned/selfsigned.go.            *)
(*                                                                         *)
(* Sign is a straight-line function; each of its steps (a call to a        *)
(* collaborator followed by the branch taken on its answer) is one action. *)
(* The collaborators (secret lister, pki helpers, signing function) are    *)
(* outside this file: their answers are inputs, fixed per invocation in    *)
(* the variable world, and drawn from small sets.                          *)
(*                                                                         *)
(* Go values are represented as follows:                                   *)
(*   error            a string, NilErr for nil                             *)
(*   pointer          a sequence of length 0 (nil) or 1                    *)
(*   []byte, []string a sequence                                           *)
(*   keys             positive integers, NoKey (0) for nil                 *)
(***************************************************************************)
EXTENDS Integers, Sequences, FiniteSets, TLC

\* ---------------------------------------------------------------- bounds
NumKeys == 2
MaxCRL == 1

\* ------------------------------------------------------------- constants
CertificateRequestPrivateKeyAnnotationKey == "cert-manager.io/private-key-secret-name"
emptyDNMessage == "Certificate will be issued with an empty Issuer DN, which contravenes RFC 5280 and could break some strict clients"
EventTypeWarning == "Warning"

NilErr == "<nil>"
NoKey == 0

\* ------------------------------------------------------------ input sets
PrivKeys == 1..NumKeys
PubKeys == {k + NumKeys : k \in PrivKeys}

SecretNames == {"", "tls-key"}
AnnotationSets == {{}} \cup {{<<CertificateRequestPrivateKeyAnnotationKey, n>>} : n \in SecretNames}

URLs == {"http://crl/a"}
SeqsUpTo(S, n) == UNION {[1..m -> S] : m \in 0..n}
CRLLists == SeqsUpTo(URLs, MaxCRL)
BaseCRLLists == {<<>>, <<"http://crl/req">>}

Subjects == {<<>>, <<"CN=example">>}
Pems == {<<45, 45>>, <<77>>}

\* Sign is registered for issuers of type SelfSigned (line 65), so
\* issuerObj.GetSpec().SelfSigned is set for every issuer it is called with.
Requests == [Annotations : AnnotationSets, Namespace : {"ns"}]
Issuers == [CRLDistributionPoints : CRLLists]

Templates == [Subject : Subjects, PublicKey : PubKeys, CRLDistributionPoints : BaseCRLLists]

\* answers of kube.SecretTLSKey
SecretAnswers ==
    {[key |-> NoKey, err |-> e] : e \in {"NotFound", "InvalidData", "connection refused"}}
        \cup {[key |-> k, err |-> NilErr] : k \in PrivKeys}
\* answers of pki.GenerateTemplateFromCertificateRequest
TemplateAnswers ==
    {[template |-> <<>>, err |-> "bad csr"]}
        \cup {[template |-> <<t>>, err |-> NilErr] : t \in Templates}
\* answers of pki.PublicKeyForPrivateKey
PublicKeyAnswers ==
    {[key |-> NoKey, err |-> "unknown private key type"]}
        \cup {[key |-> k, err |-> NilErr] : k \in PubKeys}
\* answers of pki.PublicKeysEqual
EqualAnswers == [ok : BOOLEAN, err : {NilErr, "unrecognised public key type"}]
\* answers of s.signingFn
SignAnswers ==
    {[pem |-> <<>>, err |-> "sign failed"]}
        \cup {[pem |-> p, err |-> NilErr] : p \in Pems}

Worlds == [secret : SecretAnswers, tmpl : TemplateAnswers, pub : PublicKeyAnswers,
           equal : EqualAnswers, sign : SignAnswers]

\* ----------------------------------------------------------------- state
VARIABLES
    self,        \* the SelfSigned struct
    cr,          \* argument: the CertificateRequest
    issuerObj,   \* argument: the issuer's SelfSigned spec
    world,       \* what the collaborators answer during this invocation
    pc,          \* position inside Sign
    secretName, privatekey, template, publickey,   \* locals of Sign
    reports,     \* calls made on s.reporter, in order
    events,      \* calls made on s.recorder, in order
    calls,       \* what Sign consulted (annotation map, collaborators), in order
    signArgs,    \* arguments of each call of s.signingFn, in order
    ret,         \* what Sign returned
    run,         \* 1 for a first invocation, 2 for its repetition
    first        \* what the first invocation did, kept for the repetition

vars == <<self, cr, issuerObj, world, pc, secretName, privatekey, template, publickey,
          reports, events, calls, signArgs, ret, run, first>>

locals == <<secretName, privatekey, template, publickey>>
inputs == <<self, cr, issuerObj, world, run, first>>

\* --------------------------------------------------------------- helpers
\* Go map lookup: v, ok := m[k]
MapLookup(m, k) ==
    IF \E p \in m : p[1] = k
        THEN [v |-> (CHOOSE p \in m : p[1] = k)[2], ok |-> TRUE]
        ELSE [v |-> "", ok |-> FALSE]

\* The class of an error of the resolver is the error value itself.
IsNotFound(err) == err = "NotFound"
IsInvalidData(err) == err = "InvalidData"

\* pkix.Name.String(): the RDNs joined by ","
RECURSIVE SubjectString(_)
SubjectString(subject) ==
    IF subject = <<>> THEN <<>>
    ELSE IF Len(subject) = 1 THEN <<subject[1]>>
    ELSE <<subject[1], ",">> \o SubjectString(Tail(subject))

Report(kind, err, reason) == [kind |-> kind, err |-> err, reason |-> reason]
Returned(resp, err) == [resp |-> resp, err |-> err]
NoReturn == Returned(<<>>, NilErr)
NoTemplate == <<>>

NewSelfSigned ==
    [issuerOptions |-> "ctx.IssuerOptions", secretsLister |-> "Secrets().Lister()",
     reporter |-> "crutil.NewReporter", recorder |-> "ctx.Recorder",
     signingFn |-> "pki.SignCertificate"]

Outcome == [reports |-> reports, events |-> events, ret |-> ret, signArgs |-> signArgs]
NoOutcome == [reports |-> <<>>, events |-> <<>>, ret |-> NoReturn, signArgs |-> <<>>]

\* ------------------------------------------------------------------ Init
Init ==
    /\ self = NewSelfSigned
    /\ cr = [Annotations |-> {}, Namespace |-> "ns"]
    /\ issuerObj = [CRLDistributionPoints |-> <<>>]
    /\ world = CHOOSE w \in Worlds : TRUE
    /\ pc = "idle"
    /\ secretName = ""
    /\ privatekey = NoKey
    /\ template = NoTemplate
    /\ publickey = NoKey
    /\ reports = <<>>
    /\ events = <<>>
    /\ calls = <<>>
    /\ signArgs = <<>>
    /\ ret = NoReturn
    /\ run = 1
    /\ first = NoOutcome

\* --------------------------------------------------------------- actions
\* The controller calls Sign(ctx, cr, issuerObj).  resourceNamespace (line 83)
\* is only used in a log message and is left out.
Call ==
    /\ pc = "idle"
    /\ \E r \in Requests, i \in Issuers, w \in Worlds :
          /\ cr' = r
          /\ issuerObj' = i
          /\ world' = w
    /\ pc' = "annotation"
    /\ UNCHANGED <<self, locals, reports, events, calls, signArgs, ret, run, first>>

\* CheckAnnotation testing only !ok, so that an empty reference passes.
CheckAnnotation_OnlyAbsent ==
    /\ pc = "annotation"
    /\ calls' = Append(calls, "Annotations")
    /\ LET l == MapLookup(cr.Annotations, CertificateRequestPrivateKeyAnnotationKey) IN
          /\ secretName' = l.v
          /\ IF ~l.ok
                THEN /\ reports' = Append(reports, Report("Failed", "secret name missing", "MissingAnnotation"))
                     /\ ret' = Returned(<<>>, NilErr)
                     /\ pc' = "done"
                ELSE /\ pc' = "resolve"
                     /\ UNCHANGED <<reports, ret>>
    /\ UNCHANGED <<inputs, privatekey, template, publickey, events, signArgs>>

\* lines 85-95
CheckAnnotation ==
    /\ pc = "annotation"
    /\ calls' = Append(calls, "Annotations")
    /\ LET l == MapLookup(cr.Annotations, CertificateRequestPrivateKeyAnnotationKey) IN
          /\ secretName' = l.v
          /\ IF ~l.ok \/ l.v = ""
                THEN /\ reports' = Append(reports, Report("Failed", "secret name missing", "MissingAnnotation"))
                     /\ ret' = Returned(<<>>, NilErr)
                     /\ pc' = "done"
                ELSE /\ pc' = "resolve"
                     /\ UNCHANGED <<reports, ret>>
    /\ UNCHANGED <<inputs, privatekey, template, publickey, events, signArgs>>

\* ResolveKey absorbing the transient error: return nil, nil instead of nil, err.
ResolveKey_AbsorbsTransient ==
    /\ pc = "resolve"
    /\ calls' = Append(calls, "SecretTLSKey")
    /\ LET err == world.secret.err IN
          /\ privatekey' = world.secret.key
          /\ IF IsNotFound(err)
                THEN /\ reports' = Append(reports, Report("Pending", err, "MissingSecret"))
                     /\ ret' = Returned(<<>>, NilErr)
                     /\ pc' = "done"
             ELSE IF IsInvalidData(err)
                THEN /\ reports' = Append(reports, Report("Pending", err, "ErrorParsingKey"))
                     /\ ret' = Returned(<<>>, NilErr)
                     /\ pc' = "done"
             ELSE IF err # NilErr
                THEN /\ reports' = Append(reports, Report("Pending", err, "ErrorGettingSecret"))
                     /\ ret' = Returned(<<>>, NilErr)
                     /\ pc' = "done"
             ELSE /\ pc' = "template"
                  /\ UNCHANGED <<reports, ret>>
    /\ UNCHANGED <<inputs, secretName, template, publickey, events, signArgs>>

\* ResolveKey without the IsInvalidData branch: malformed data falls through
\* to the transient case.
ResolveKey_NoInvalidData ==
    /\ pc = "resolve"
    /\ calls' = Append(calls, "SecretTLSKey")
    /\ LET err == world.secret.err IN
          /\ privatekey' = world.secret.key
          /\ IF IsNotFound(err)
                THEN /\ reports' = Append(reports, Report("Pending", err, "MissingSecret"))
                     /\ ret' = Returned(<<>>, NilErr)
                     /\ pc' = "done"
             ELSE IF err # NilErr
                THEN /\ reports' = Append(reports, Report("Pending", err, "ErrorGettingSecret"))
                     /\ ret' = Returned(<<>>, err)
                     /\ pc' = "done"
             ELSE /\ pc' = "template"
                  /\ UNCHANGED <<reports, ret>>
    /\ UNCHANGED <<inputs, secretName, template, publickey, events, signArgs>>

\* lines 97-123
ResolveKey ==
    /\ pc = "resolve"
    /\ calls' = Append(calls, "SecretTLSKey")
    /\ LET err == world.secret.err IN
          /\ privatekey' = world.secret.key
          /\ IF IsNotFound(err)
                THEN /\ reports' = Append(reports, Report("Pending", err, "MissingSecret"))
                     /\ ret' = Returned(<<>>, NilErr)
                     /\ pc' = "done"
             ELSE IF IsInvalidData(err)
                THEN /\ reports' = Append(reports, Report("Pending", err, "ErrorParsingKey"))
                     /\ ret' = Returned(<<>>, NilErr)
                     /\ pc' = "done"
             ELSE IF err # NilErr
                THEN /\ reports' = Append(reports, Report("Pending", err, "ErrorGettingSecret"))
                     /\ ret' = Returned(<<>>, err)
                     /\ pc' = "done"
             ELSE /\ pc' = "template"
                  /\ UNCHANGED <<reports, ret>>
    /\ UNCHANGED <<inputs, secretName, template, publickey, events, signArgs>>

\* GenerateTemplate without the assignment of line 133.
GenerateTemplate_NoOverride ==
    /\ pc = "template"
    /\ calls' = Append(calls, "GenerateTemplateFromCertificateRequest")
    /\ IF world.tmpl.err # NilErr
          THEN /\ reports' = Append(reports, Report("Failed", world.tmpl.err, "ErrorGenerating"))
               /\ ret' = Returned(<<>>, NilErr)
               /\ pc' = "done"
               /\ template' = world.tmpl.template
          ELSE /\ template' = world.tmpl.template
               /\ pc' = "emptyDN"
               /\ UNCHANGED <<reports, ret>>
    /\ UNCHANGED <<inputs, secretName, privatekey, publickey, events, signArgs>>

\* lines 125-133
GenerateTemplate ==
    /\ pc = "template"
    /\ calls' = Append(calls, "GenerateTemplateFromCertificateRequest")
    /\ IF world.tmpl.err # NilErr
          THEN /\ reports' = Append(reports, Report("Failed", world.tmpl.err, "ErrorGenerating"))
               /\ ret' = Returned(<<>>, NilErr)
               /\ pc' = "done"
               /\ template' = world.tmpl.template
          ELSE /\ template' = <<[world.tmpl.template[1] EXCEPT
                                    !.CRLDistributionPoints = issuerObj.CRLDistributionPoints]>>
               /\ pc' = "emptyDN"
               /\ UNCHANGED <<reports, ret>>
    /\ UNCHANGED <<inputs, secretName, privatekey, publickey, events, signArgs>>

\* EmptyDNWarning with the test inverted.
EmptyDNWarning_Inverted ==
    /\ pc = "emptyDN"
    /\ calls' = Append(calls, "Subject.String")
    /\ IF SubjectString(template[1].Subject) # <<>>
          THEN events' = Append(events, [type |-> EventTypeWarning, reason |-> "BadConfig",
                                         message |-> emptyDNMessage])
          ELSE UNCHANGED events
    /\ pc' = "pubkey"
    /\ UNCHANGED <<inputs, locals, reports, signArgs, ret>>

\* EmptyDNWarning that warns once per SelfSigned instance rather than once
\* per invocation.
EmptyDNWarning_Once ==
    /\ pc = "emptyDN"
    /\ calls' = Append(calls, "Subject.String")
    /\ IF SubjectString(template[1].Subject) = <<>> /\ run = 1
          THEN events' = Append(events, [type |-> EventTypeWarning, reason |-> "BadConfig",
                                         message |-> emptyDNMessage])
          ELSE UNCHANGED events
    /\ pc' = "pubkey"
    /\ UNCHANGED <<inputs, locals, reports, signArgs, ret>>

\* lines 135-142
EmptyDNWarning ==
    /\ pc = "emptyDN"
    /\ calls' = Append(calls, "Subject.String")
    /\ IF SubjectString(template[1].Subject) = <<>>
          THEN events' = Append(events, [type |-> EventTypeWarning, reason |-> "BadConfig",
                                         message |-> emptyDNMessage])
          ELSE UNCHANGED events
    /\ pc' = "pubkey"
    /\ UNCHANGED <<inputs, locals, reports, signArgs, ret>>

\* DerivePublicKey returning without telling the reporter.
DerivePublicKey_Silent ==
    /\ pc = "pubkey"
    /\ calls' = Append(calls, "PublicKeyForPrivateKey")
    /\ publickey' = world.pub.key
    /\ IF world.pub.err # NilErr
          THEN /\ ret' = Returned(<<>>, NilErr)
               /\ pc' = "done"
          ELSE /\ pc' = "keymatch"
               /\ UNCHANGED ret
    /\ UNCHANGED <<inputs, secretName, privatekey, template, events, signArgs, reports>>

\* DerivePublicKey reporting the failure but missing its return statement.
DerivePublicKey_NoReturn ==
    /\ pc = "pubkey"
    /\ calls' = Append(calls, "PublicKeyForPrivateKey")
    /\ publickey' = world.pub.key
    /\ IF world.pub.err # NilErr
          THEN reports' = Append(reports, Report("Failed", world.pub.err, "ErrorPublicKey"))
          ELSE UNCHANGED reports
    /\ pc' = "keymatch"
    /\ UNCHANGED <<inputs, secretName, privatekey, template, events, signArgs, ret>>

\* lines 144-151
DerivePublicKey ==
    /\ pc = "pubkey"
    /\ calls' = Append(calls, "PublicKeyForPrivateKey")
    /\ publickey' = world.pub.key
    /\ IF world.pub.err # NilErr
          THEN /\ reports' = Append(reports, Report("Failed", world.pub.err, "ErrorPublicKey"))
               /\ ret' = Returned(<<>>, NilErr)
               /\ pc' = "done"
          ELSE /\ pc' = "keymatch"
               /\ UNCHANGED <<reports, ret>>
    /\ UNCHANGED <<inputs, secretName, privatekey, template, events, signArgs>>

\* CheckKeyMatch without lines 156-158: the comparator's nil error is passed on.
CheckKeyMatch_NoSynthesis ==
    /\ pc = "keymatch"
    /\ calls' = Append(calls, "PublicKeysEqual")
    /\ LET ok == world.equal.ok
           err == world.equal.err IN
          IF err # NilErr \/ ~ok
             THEN /\ reports' = Append(reports, Report("Failed", err, "ErrorKeyMatch"))
                  /\ ret' = Returned(<<>>, NilErr)
                  /\ pc' = "done"
             ELSE /\ pc' = "sign"
                  /\ UNCHANGED <<reports, ret>>
    /\ UNCHANGED <<inputs, locals, events, signArgs>>

\* lines 153-165
CheckKeyMatch ==
    /\ pc = "keymatch"
    /\ calls' = Append(calls, "PublicKeysEqual")
    /\ LET ok == world.equal.ok
           err == world.equal.err IN
          IF err # NilErr \/ ~ok
             THEN /\ reports' = Append(reports,
                        Report("Failed",
                               IF err = NilErr THEN "CSR not signed by referenced private key" ELSE err,
                               "ErrorKeyMatch"))
                  /\ ret' = Returned(<<>>, NilErr)
                  /\ pc' = "done"
             ELSE /\ pc' = "sign"
                  /\ UNCHANGED <<reports, ret>>
    /\ UNCHANGED <<inputs, locals, events, signArgs>>

\* SignCertificate signing the template's declared key instead of the derived one.
SignCertificate_DeclaredKey ==
    /\ pc = "sign"
    /\ calls' = Append(calls, "signingFn")
    /\ signArgs' = Append(signArgs, <<template[1], template[1], template[1].PublicKey, privatekey>>)
    /\ LET certPem == world.sign.pem IN
          IF world.sign.err # NilErr
             THEN /\ reports' = Append(reports, Report("Failed", world.sign.err, "ErrorSigning"))
                  /\ ret' = Returned(<<>>, NilErr)
             ELSE /\ ret' = Returned(<<[Certificate |-> certPem, CA |-> certPem]>>, NilErr)
                  /\ UNCHANGED reports
    /\ pc' = "done"
    /\ UNCHANGED <<inputs, locals, events>>

\* lines 167-182
SignCertificate ==
    /\ pc = "sign"
    /\ calls' = Append(calls, "signingFn")
    /\ signArgs' = Append(signArgs, <<template[1], template[1], publickey, privatekey>>)
    /\ LET certPem == world.sign.pem IN
          IF world.sign.err # NilErr
             THEN /\ reports' = Append(reports, Report("Failed", world.sign.err, "ErrorSigning"))
                  /\ ret' = Returned(<<>>, NilErr)
             ELSE /\ ret' = Returned(<<[Certificate |-> certPem, CA |-> certPem]>>, NilErr)
                  /\ UNCHANGED reports
    /\ pc' = "done"
    /\ UNCHANGED <<inputs, locals, events>>

\* The controller calls Sign again with the same request, issuer and world.
Reinvoke ==
    /\ pc = "done"
    /\ run = 1
    /\ run' = 2
    /\ first' = Outcome
    /\ pc' = "annotation"
    /\ secretName' = ""
    /\ privatekey' = NoKey
    /\ template' = NoTemplate
    /\ publickey' = NoKey
    /\ reports' = <<>>
    /\ events' = <<>>
    /\ calls' = <<>>
    /\ signArgs' = <<>>
    /\ ret' = NoReturn
    /\ UNCHANGED <<self, cr, issuerObj, world>>

\* The controller is done with this request.
Forget ==
    /\ pc = "done"
    /\ pc' = "idle"
    /\ cr' = [Annotations |-> {}, Namespace |-> "ns"]
    /\ issuerObj' = [CRLDistributionPoints |-> <<>>]
    /\ world' = CHOOSE w \in Worlds : TRUE
    /\ secretName' = ""
    /\ privatekey' = NoKey
    /\ template' = NoTemplate
    /\ publickey' = NoKey
    /\ reports' = <<>>
    /\ events' = <<>>
    /\ calls' = <<>>
    /\ signArgs' = <<>>
    /\ ret' = NoReturn
    /\ run' = 1
    /\ first' = NoOutcome
    /\ UNCHANGED self

Next ==
    \/ Call
    \/ CheckAnnotation
    \/ ResolveKey
    \/ GenerateTemplate
    \/ EmptyDNWarning
    \/ DerivePublicKey
    \/ CheckKeyMatch
    \/ SignCertificate
    \/ Reinvoke
    \/ Forget

Spec == Init /\ [][Next]_vars

\* ------------------------------------------------------------ properties
AtReturn == pc = "done"
Succeeded == pc = "done" /\ ret.resp # <<>>
Consulted(c) == \E i \in DOMAIN calls : calls[i] = c
AnnotationMissing ==
    ~ \E p \in cr.Annotations : p[1] = CertificateRequestPrivateKeyAnnotationKey /\ p[2] # ""
StepOrder ==
    <<"Annotations", "SecretTLSKey", "GenerateTemplateFromCertificateRequest", "Subject.String",
      "PublicKeyForPrivateKey", "PublicKeysEqual", "signingFn">>
FailureReasons ==
    {"MissingAnnotation", "MissingSecret", "ErrorParsingKey", "ErrorGettingSecret",
     "ErrorGenerating", "ErrorPublicKey", "ErrorKeyMatch", "ErrorSigning"}

C2_ErrorIffGettingSecret ==
    AtReturn =>
        /\ ret.err # NilErr <=> (reports # <<>> /\ reports[1].reason = "ErrorGettingSecret")
        /\ ret.err # NilErr =>
              /\ Consulted("SecretTLSKey")
              /\ ret.err = world.secret.err
              /\ world.secret.err \notin {"NotFound", "InvalidData"}
        /\ (reports # <<>> /\ reports[1].reason \in FailureReasons \ {"ErrorGettingSecret"})
              => ret.err = NilErr
        /\ ret.resp # <<>> => ret.err = NilErr

C2_Witness ==
    AtReturn /\ ret.err = "connection refused" /\ reports[1].reason = "ErrorGettingSecret"

\* C3: a request whose private-key annotation is absent or empty is reported
\* Failed/MissingAnnotation and Sign returns (nil, nil) without consulting the
\* key resolver, the template builder or the signing function.
C3_MissingAnnotation ==
    (AtReturn /\ AnnotationMissing) =>
        /\ Len(reports) = 1
        /\ reports[1].kind = "Failed"
        /\ reports[1].reason = "MissingAnnotation"
        /\ ret = Returned(<<>>, NilErr)
        /\ calls = <<"Annotations">>
        /\ signArgs = <<>>
        /\ events = <<>>

C3_Witness ==
    /\ AtReturn
    /\ <<CertificateRequestPrivateKeyAnnotationKey, "">> \in cr.Annotations
    /\ world.secret.err = NilErr
    /\ reports[1].reason = "MissingAnnotation"

\* C4: with a non-empty key annotation, a not-found answer of the resolver is
\* reported Pending/MissingSecret and an invalid-data answer
\* Pending/ErrorParsingKey; Sign returns (nil, nil) in both cases.
C4_PendingOnMissingOrMalformed ==
    (AtReturn /\ ~AnnotationMissing /\ world.secret.err \in {"NotFound", "InvalidData"}) =>
        /\ Len(reports) = 1
        /\ reports[1].kind = "Pending"
        /\ reports[1].reason =
              (IF world.secret.err = "NotFound" THEN "MissingSecret" ELSE "ErrorParsingKey")
        /\ reports[1].err = world.secret.err
        /\ ret = Returned(<<>>, NilErr)

C4_Witness ==
    /\ AtReturn
    /\ world.secret.err = "InvalidData"
    /\ reports[1].reason = "ErrorParsingKey"

EmptySubjectRequest ==
    /\ world.tmpl.template # <<>>
    /\ SubjectString(world.tmpl.template[1].Subject) = <<>>
WarningEvents ==
    {i \in DOMAIN events : events[i].type = EventTypeWarning}

\* C5 (as stated): a request with an empty subject DN succeeds and produces
\* exactly one warning event; a request with a non-empty one produces none.
C5_EmptyDNAlwaysSucceedsAndWarns ==
    AtReturn =>
        /\ EmptySubjectRequest => (ret.resp # <<>> /\ Cardinality(WarningEvents) = 1)
        /\ ~EmptySubjectRequest => events = <<>>

\* C5 (amended): an invocation whose template was built with an empty subject
\* DN emits exactly one warning event and carries on, so that it returns a
\* result exactly when key derivation, key match and signing all pass; an
\* invocation that stops before the template is built, or whose subject DN is
\* not empty, emits no event.
C5_WarnsIffTemplateHasEmptyDN ==
    /\ Cardinality(WarningEvents) = Len(events)
    /\ Len(events) <= 1
    /\ template = <<>> => events = <<>>
    /\ (template # <<>> /\ pc # "emptyDN") =>
          (Len(events) = 1 <=> SubjectString(template[1].Subject) = <<>>)
    /\ (AtReturn /\ template # <<>>) =>
          (ret.resp # <<>> <=>
              /\ world.pub.err = NilErr
              /\ world.equal.err = NilErr /\ world.equal.ok
              /\ world.sign.err = NilErr)

C5_Witness ==
    Succeeded /\ template[1].Subject = <<>> /\ Len(events) = 1

\* C6: a non-nil result has Certificate and CA byte-identical and equal to
\* what the signing function returned, and the signing function was called
\* with the template twice, the derived public key and the resolved private key.
C6_SelfSignedResult ==
    Succeeded =>
        /\ ret.resp[1].Certificate = ret.resp[1].CA
        /\ ret.resp[1].Certificate = world.sign.pem
        /\ Len(signArgs) = 1
        /\ signArgs[1][1] = signArgs[1][2]
        /\ signArgs[1][1] = template[1]
        /\ signArgs[1][3] = world.pub.key
        /\ signArgs[1][4] = world.secret.key

C6_Witness ==
    Succeeded /\ template[1].PublicKey # world.pub.key /\ ret.resp[1].CA = <<77>>

\* C7: when the comparator answers "not equal" or answers with an error, Sign
\* reports Failed/ErrorKeyMatch, returns (nil, nil) and does not call the
\* signing function; the reported error is the comparator's, or a synthesized
\* non-nil one when the comparator gave none.
C7_KeyMismatch ==
    (Consulted("PublicKeysEqual") /\ (~world.equal.ok \/ world.equal.err # NilErr)) =>
        /\ pc = "done"
        /\ Len(reports) = 1
        /\ reports[1].kind = "Failed"
        /\ reports[1].reason = "ErrorKeyMatch"
        /\ reports[1].err # NilErr
        /\ world.equal.err # NilErr => reports[1].err = world.equal.err
        /\ world.equal.err = NilErr => reports[1].err = "CSR not signed by referenced private key"
        /\ ret = Returned(<<>>, NilErr)
        /\ signArgs = <<>>
        /\ ~Consulted("signingFn")

C7_Witness ==
    /\ AtReturn
    /\ Consulted("PublicKeysEqual")
    /\ ~world.equal.ok /\ world.equal.err = NilErr
    /\ reports[1].reason = "ErrorKeyMatch"

\* C8: once the template is built it carries exactly the issuer's CRL
\* distribution points, whatever the base template held, with every other
\* field as built; this is the template the signing function receives.
C8_CRLOverride ==
    /\ template # <<>> =>
          /\ template[1].CRLDistributionPoints = issuerObj.CRLDistributionPoints
          /\ template[1].Subject = world.tmpl.template[1].Subject
          /\ template[1].PublicKey = world.tmpl.template[1].PublicKey
    /\ \A i \in DOMAIN signArgs :
          /\ signArgs[i][1].CRLDistributionPoints = issuerObj.CRLDistributionPoints
          /\ signArgs[i][2].CRLDistributionPoints = issuerObj.CRLDistributionPoints

C8_Witness ==
    /\ Len(signArgs) = 1
    /\ world.tmpl.template[1].CRLDistributionPoints # <<>>
    /\ issuerObj.CRLDistributionPoints = <<>>
    /\ signArgs[1][1].CRLDistributionPoints = <<>>

C10_FixedOrderShortCircuit ==
    /\ Len(calls) <= Len(StepOrder)
    /\ calls = SubSeq(StepOrder, 1, Len(calls))
    /\ reports # <<>> => pc = "done"
    /\ ret # NoReturn => pc = "done"
    /\ (reports # <<>> /\ reports[1].reason \in
            {"MissingAnnotation", "MissingSecret", "ErrorParsingKey", "ErrorGettingSecret",
             "ErrorGenerating"}) => events = <<>>
    /\ events # <<>> => Len(calls) >= 4
    /\ Len(signArgs) <= 1
    /\ signArgs # <<>> =>
          /\ calls = StepOrder
          /\ ~AnnotationMissing
          /\ world.secret.err = NilErr
          /\ world.tmpl.err = NilErr
          /\ world.pub.err = NilErr
          /\ world.equal.err = NilErr /\ world.equal.ok
    /\ ret.resp # <<>> => (reports = <<>> /\ ret.err = NilErr /\ signArgs # <<>>)

C10_Witness ==
    /\ AtReturn
    /\ Len(events) = 1
    /\ reports # <<>>
    /\ reports[1].reason = "ErrorPublicKey"
    /\ calls = SubSeq(StepOrder, 1, 5)
====
